---- MODULE Spec2Model ----
(***************************************************************************)
(* Model of cloudbio/edition/base.py: the Edition base class and the       *)
(* CloudBioLinux, BioNode and Minimal editions.  One edition object is     *)
(* constructed from an environment and then receives hook calls from the   *)
(* orchestrator.  The model records, for the last hook call, the arguments *)
(* the caller passed, the state of the caller's lists after the call, the  *)
(* returned value and every outbound effect (remote commands, log lines,   *)
(* collaborator invocations, raised exception).                            *)
(***************************************************************************)
EXTENDS Integers, Sequences, FiniteSets, TLC

(* ----------------------------- bounds ---------------------------------- *)
MaxLen == 2            \* longest list the orchestrator passes to a hook
MaxUpgradeCalls == 2   \* apt_upgrade_system calls in one run

(* ----------------------------- inputs ---------------------------------- *)
Kinds == {"Edition", "CloudBioLinux", "BioNode", "Minimal"}

Versions == {"0.1", "0.2"}
Distributions == {"debian", "ubuntu"}
DistNames == {"squeeze", "natty"}
\* "" stands for a debian_repository key that is not set (env.get gives a
\* falsy value)
Repositories == {"", "http://ftp.de.debian.org/debian/"}
SourcesFiles == {"/etc/apt/sources.list.d/cloudbiolinux.list"}

\* environments handed to a constructor (self.env)
Envs == [version : Versions, distribution : Distributions,
         dist_name : DistNames, debian_repository : Repositories,
         sources_file : SourcesFiles]

\* the module-global env imported by "from fabric.api import *"
GlobalEnvs == [dist_name : DistNames, debian_repository : Repositories]

ConfigNames == {"packages", "minimal"}
ConfigItems == {"galaxy", "cloudman", "x"}
PkgItems == {"cloudman", "x"}
AptItems == {"deb http://archive.ubuntu.com/ubuntu/ natty main"}
KeyItems == {"7F0CEB10"}

Lists(S) == UNION {[1..k -> S] : k \in 0..MaxLen}

NoneValue == "None"
NoList == <<>>

(* ------------------------ sequence helpers ----------------------------- *)
\* Python's "x in items"
Contains(items, x) == \E i \in 1..Len(items) : items[i] = x

(* --------------------------- class Edition ----------------------------- *)
\* A method body is an operator giving the record
\*   ret    the returned value
\*   items  the list object the caller passed, as it is after the call
\*   items2 the second list object the caller passed (rewrite_apt_keys)
\*   alias  TRUE when ret is the very object the caller passed
\*   cmds   remote commands issued, <<channel, command>> each
\*   logs   debug log lines emitted
\*   collab collaborators invoked
\*   raised the exception that left the method, or "none"
Outcome(ret, items, items2, alias, cmds, logs, collab, raised) ==
  [ret |-> ret, items |-> items, items2 |-> items2, alias |-> alias,
   cmds |-> cmds, logs |-> logs, collab |-> collab, raised |-> raised]

Edition_check_distribution(self) ==
  Outcome(NoneValue, NoList, NoList, FALSE, <<>>, <<>>, <<>>, "none")

Edition_check_packages_source(self) ==
  Outcome(NoneValue, NoList, NoList, FALSE, <<>>, <<>>, <<>>, "none")

Edition_rewrite_apt_sources_list(self, sources) ==
  Outcome(sources, sources, NoList, TRUE, <<>>, <<>>, <<>>, "none")

Edition_rewrite_apt_preferences(self, preferences) ==
  Outcome(preferences, preferences, NoList, TRUE, <<>>, <<>>, <<>>, "none")

Edition_rewrite_apt_automation(self, package_info) ==
  Outcome(package_info, package_info, NoList, TRUE, <<>>, <<>>, <<>>, "none")

\* variant: the two returned values in the wrong order
Edition_rewrite_apt_keys_swapped(self, standalone, keyserver) ==
  Outcome(<<keyserver, standalone>>, standalone, keyserver, TRUE,
          <<>>, <<>>, <<>>, "none")

Edition_rewrite_apt_keys(self, standalone, keyserver) ==
  Outcome(<<standalone, keyserver>>, standalone, keyserver, TRUE,
          <<>>, <<>>, <<>>, "none")

UpgradeCommand == "apt-get -y --force-yes upgrade"

\* envGiven: the caller passed an env argument (a non-empty fabric env,
\* which is truthy); otherwise env is None and the ambient sudo is used
Edition_apt_upgrade_system(self, envGiven) ==
  LET sudo_cmd == IF envGiven THEN "env.safe_sudo" ELSE "sudo"
  IN  Outcome(NoneValue, NoList, NoList, FALSE,
              << <<sudo_cmd, UpgradeCommand>> >>, <<>>, <<>>, "none")

Edition_post_install(self, pkgGiven, pkg_install) ==
  Outcome(NoneValue, pkg_install, NoList, FALSE, <<>>, <<>>, <<>>, "none")

Edition_rewrite_config_items(self, name, items) ==
  Outcome(items, items, NoList, TRUE, <<>>, <<>>, <<>>, "none")

(* ------------------------ class CloudBioLinux -------------------------- *)
to_add == <<"galaxy", "galaxy_tools", "cloudman">>

\* the loop "for x in to_add: if x not in items: items.append(x)" from its
\* i-th iteration on; items is the caller's list object, mutated in place
\* variant: the loop without its "not in items" test
RECURSIVE AppendAlways(_, _)
AppendAlways(items, i) ==
  IF i > Len(to_add) THEN items
  ELSE AppendAlways(Append(items, to_add[i]), i + 1)

RECURSIVE AppendMissing(_, _)
AppendMissing(items, i) ==
  IF i > Len(to_add) THEN items
  ELSE IF Contains(items, to_add[i])
       THEN AppendMissing(items, i + 1)
       ELSE AppendMissing(Append(items, to_add[i]), i + 1)

CloudBioLinux_rewrite_config_items(self, name, items) ==
  LET result == AppendMissing(items, 1)
  IN  Outcome(result, result, NoList, TRUE, <<>>, <<>>, <<>>, "none")

\* variant: cloudman configured whatever pkg_install holds
CloudBioLinux_post_install_unconditional(self, pkgGiven, pkg_install) ==
  Outcome(NoneValue, pkg_install, NoList, FALSE, <<>>, <<>>,
          <<"_freenx_scripts", "_configure_cloudman">>, "none")

CloudBioLinux_post_install(self, pkgGiven, pkg_install) ==
  LET cloudman == pkgGiven /\ Contains(pkg_install, "cloudman")
  IN  Outcome(NoneValue, pkg_install, NoList, FALSE, <<>>, <<>>,
              IF cloudman THEN <<"_freenx_scripts", "_configure_cloudman">>
                          ELSE <<"_freenx_scripts">>,
              "none")

(* --------------------------- class BioNode ----------------------------- *)
BioLinuxSource == "deb http://nebc.nerc.ac.uk/bio-linux/ unstable bio-linux"
DefaultDebianRepository == "http://ftp.us.debian.org/debian/"

BioNode_check_distribution(self) ==
  Outcome(NoneValue, NoList, NoList, FALSE, <<>>, <<>>, <<>>, "none")

BioNode_check_packages_source(self) ==
  Outcome(NoneValue, NoList, NoList, FALSE,
          << <<"sudo", "cat /dev/null > " \o self.env.sources_file>> >>,
          <<"Clearing " \o self.env.sources_file>>, <<>>, "none")

\* "deb {repo} {dist} main contrib non-free".format(...) and its siblings
DebianSources(repo, dist) ==
  << "deb " \o repo \o " " \o dist \o " main contrib non-free",
     "deb " \o repo \o " " \o dist \o "-updates main contrib non-free",
     "deb " \o repo \o " testing main contrib non-free" >>

\* env is the module-global fabric env, self.env the constructor's argument
BioNode_rewrite_apt_sources_list(self, env, sources) ==
  LET main_repository == IF env.debian_repository = ""
                         THEN DefaultDebianRepository
                         ELSE env.debian_repository
      new_sources == IF self.env.distribution \in {"debian"}
                     THEN DebianSources(main_repository, env.dist_name)
                     ELSE <<>>
  IN  Outcome(new_sources \o <<BioLinuxSource>>, sources, NoList, FALSE,
              <<>>, <<"BioNode.rewrite_apt_sources_list!">>, <<>>, "none")

\* preferences.split('\n') of the literal in the method
BioNodePreferences ==
  << "Package: *", "Package: *", "Pin: release n=natty", "Pin-Priority: 900", "",
     "Package: *", "Pin: release a=stable", "Pin-Priority: 700", "",
     "Package: *", "Pin: release a=testing", "Pin-Priority: 650", "",
     "Package: *", "Pin: release a=bio-linux", "Pin-Priority: 400", "" >>

BioNode_rewrite_apt_preferences(self, preferences) ==
  Outcome(BioNodePreferences, preferences, NoList, FALSE, <<>>, <<>>, <<>>, "none")

BioNode_rewrite_apt_automation(self, package_info) ==
  Outcome(<<>>, package_info, NoList, FALSE, <<>>, <<>>, <<>>, "none")

BioNode_rewrite_apt_keys(self, standalone, keyserver) ==
  Outcome(<< <<>>, <<>> >>, standalone, keyserver, FALSE, <<>>, <<>>, <<>>, "none")

\* variant: the keyring is appended only when it is not there yet
BioNode_rewrite_config_items_once(self, name, items) ==
  IF name = "minimal" /\ ~Contains(items, "bio-linux-keyring")
  THEN Outcome(items \o <<"bio-linux-keyring">>, items, NoList, FALSE,
               <<>>, <<>>, <<>>, "none")
  ELSE Outcome(items, items, NoList, TRUE, <<>>, <<>>, <<>>, "none")

BioNode_rewrite_config_items(self, name, items) ==
  IF name = "minimal"
  THEN Outcome(items \o <<"bio-linux-keyring">>, items, NoList, FALSE,
               <<>>, <<>>, <<>>, "none")
  ELSE Outcome(items, items, NoList, TRUE, <<>>, <<>>, <<>>, "none")

(* --------------------------- class Minimal ----------------------------- *)
Minimal_rewrite_apt_sources_list(self, sources) ==
  Outcome(<<BioLinuxSource>>, sources, NoList, FALSE, <<>>, <<>>, <<>>, "none")

Minimal_rewrite_apt_automation(self, package_info) ==
  Outcome(<<>>, package_info, NoList, FALSE, <<>>, <<>>, <<>>, "none")

Minimal_rewrite_apt_keys(self, standalone, keyserver) ==
  Outcome(<< <<>>, <<>> >>, standalone, keyserver, FALSE, <<>>, <<>>, <<>>, "none")

\* variant: Minimal without its override, the base method runs
Minimal_apt_upgrade_system_inherited(self, envGiven) ==
  Edition_apt_upgrade_system(self, envGiven)

\* env.logger.debug(...) on the argument: with the default env=None the
\* attribute lookup on None raises before anything is logged
Minimal_apt_upgrade_system(self, envGiven) ==
  IF envGiven
  THEN Outcome(NoneValue, NoList, NoList, FALSE, <<>>,
               <<"Skipping forced system upgrade">>, <<>>, "none")
  ELSE Outcome(NoneValue, NoList, NoList, FALSE, <<>>, <<>>, <<>>,
               "AttributeError")

Minimal_rewrite_config_items(self, name, items) ==
  Outcome(items, items, NoList, TRUE, <<>>, <<>>, <<>>, "none")

(* ------------------------------ state ---------------------------------- *)
VARIABLES
  pc,          \* "idle", "check_distribution", "subclass_init" or "ready"
  kind,        \* the class being constructed / of the constructed edition
  name, short_name, version, self_env,   \* the edition object's fields
  env,         \* the module-global fabric env
  ctor_check,  \* how the constructor's check_distribution call ended
  call,        \* the last hook call: hook, name, items, items2, given
  result,      \* its Outcome
  nUpgradeCalls,  \* apt_upgrade_system calls made on non-Minimal editions
  nUpgradeCmds    \* remote upgrade commands issued so far

vars == <<pc, kind, name, short_name, version, self_env, env, ctor_check,
          call, result, nUpgradeCalls, nUpgradeCmds>>

identity == <<name, short_name, version>>
counters == <<nUpgradeCalls, nUpgradeCmds>>

self == [name |-> name, short_name |-> short_name, version |-> version,
         env |-> self_env]

Unset == "unset"
Call(hook, cat, items, items2, given) ==
  [hook |-> hook, name |-> cat, items |-> items, items2 |-> items2,
   given |-> given]
NoCall == Call("none", "", NoList, NoList, FALSE)
NoResult == Outcome(NoneValue, NoList, NoList, FALSE, <<>>, <<>>, <<>>, "none")

Init ==
  /\ pc = "idle"
  /\ kind = Unset
  /\ name = Unset /\ short_name = Unset /\ version = Unset
  /\ self_env = Unset
  /\ env \in GlobalEnvs
  /\ ctor_check = "pending"
  /\ call = NoCall
  /\ result = NoResult
  /\ nUpgradeCalls = 0 /\ nUpgradeCmds = 0

(* --------------------------- construction ------------------------------ *)
\* variant: check_distribution called before short_name is assigned
Edition_init_check_early ==
  /\ pc = "idle"
  /\ \E k \in Kinds, e \in Envs :
       /\ kind' = k
       /\ name' = "BioLinux base Edition"
       /\ short_name' = Unset
       /\ version' = e.version
       /\ self_env' = e
  /\ pc' = "check_distribution"
  /\ ctor_check' = "pending"
  /\ call' = NoCall /\ result' = NoResult
  /\ UNCHANGED <<env, counters>>

\* Edition.__init__ up to the check_distribution call; every subclass
\* constructor starts by calling it
Edition_init ==
  /\ pc = "idle"
  /\ \E k \in Kinds, e \in Envs :
       /\ kind' = k
       /\ name' = "BioLinux base Edition"
       /\ short_name' = "biolinux"
       /\ version' = e.version
       /\ self_env' = e
  /\ pc' = "check_distribution"
  /\ ctor_check' = "pending"
  /\ call' = NoCall /\ result' = NoResult
  /\ UNCHANGED <<env, counters>>

\* method resolution of self.check_distribution()
Dispatch_check_distribution(k, obj) ==
  IF k = "BioNode" THEN BioNode_check_distribution(obj)
                   ELSE Edition_check_distribution(obj)

\* the last statement of Edition.__init__; an exception leaves the
\* constructor and no instance is returned
check_distribution ==
  /\ pc = "check_distribution"
  /\ LET out == Dispatch_check_distribution(kind, self)
     IN  /\ ctor_check' = out.raised
         /\ pc' = IF out.raised # "none" THEN "idle"
                  ELSE IF kind = "Edition" THEN "ready"
                  ELSE "subclass_init"
         \* a failed constructor leaves no object behind
         /\ IF out.raised # "none"
            THEN /\ kind' = Unset /\ self_env' = Unset
                 /\ name' = Unset /\ short_name' = Unset /\ version' = Unset
            ELSE UNCHANGED <<kind, identity, self_env>>
  /\ UNCHANGED <<env, call, result, counters>>

EditionName(k) ==
  CASE k = "CloudBioLinux" -> "CloudBioLinux Edition"
    [] k = "BioNode" -> "BioNode Edition"
    [] k = "Minimal" -> "Minimal Edition"
    [] OTHER -> "BioLinux base Edition"

EditionShortName(k) ==
  CASE k = "CloudBioLinux" -> "cloudbiolinux"
    [] k = "BioNode" -> "bionode"
    [] k = "Minimal" -> "minimal"
    [] OTHER -> "biolinux"

\* the two assignments after Edition.__init__ in a subclass constructor
Subclass_init ==
  /\ pc = "subclass_init"
  /\ name' = EditionName(kind)
  /\ short_name' = EditionShortName(kind)
  /\ pc' = "ready"
  /\ UNCHANGED <<kind, version, self_env, env, ctor_check, call, result,
                 counters>>

(* ------------------------------ hooks ---------------------------------- *)
UpgradeCommandsIn(cmds) ==
  Cardinality({i \in DOMAIN cmds : cmds[i][2] = UpgradeCommand})

\* a hook call that ran on the constructed edition and came back with out
Returned(c, out) ==
  /\ pc = "ready"
  /\ call' = c
  /\ result' = out
  /\ UNCHANGED <<pc, kind, identity, self_env, env, ctor_check>>

check_packages_source ==
  /\ Returned(Call("check_packages_source", "", NoList, NoList, FALSE),
              IF kind = "BioNode" THEN BioNode_check_packages_source(self)
                                  ELSE Edition_check_packages_source(self))
  /\ UNCHANGED counters

rewrite_apt_sources_list ==
  \E sources \in Lists(AptItems) :
    /\ Returned(Call("rewrite_apt_sources_list", "", sources, NoList, TRUE),
         CASE kind = "BioNode" -> BioNode_rewrite_apt_sources_list(self, env, sources)
           [] kind = "Minimal" -> Minimal_rewrite_apt_sources_list(self, sources)
           [] OTHER -> Edition_rewrite_apt_sources_list(self, sources))
    /\ UNCHANGED counters

rewrite_apt_preferences ==
  \E preferences \in Lists(AptItems) :
    /\ Returned(Call("rewrite_apt_preferences", "", preferences, NoList, TRUE),
         IF kind = "BioNode"
         THEN BioNode_rewrite_apt_preferences(self, preferences)
         ELSE Edition_rewrite_apt_preferences(self, preferences))
    /\ UNCHANGED counters

rewrite_apt_automation ==
  \E package_info \in Lists(AptItems) :
    /\ Returned(Call("rewrite_apt_automation", "", package_info, NoList, TRUE),
         CASE kind = "BioNode" -> BioNode_rewrite_apt_automation(self, package_info)
           [] kind = "Minimal" -> Minimal_rewrite_apt_automation(self, package_info)
           [] OTHER -> Edition_rewrite_apt_automation(self, package_info))
    /\ UNCHANGED counters

rewrite_apt_keys ==
  \E standalone \in Lists(KeyItems), keyserver \in Lists(KeyItems) :
    /\ Returned(Call("rewrite_apt_keys", "", standalone, keyserver, TRUE),
         CASE kind = "BioNode" -> BioNode_rewrite_apt_keys(self, standalone, keyserver)
           [] kind = "Minimal" -> Minimal_rewrite_apt_keys(self, standalone, keyserver)
           [] OTHER -> Edition_rewrite_apt_keys(self, standalone, keyserver))
    /\ UNCHANGED counters

apt_upgrade_system ==
  /\ kind # "Minimal" => nUpgradeCalls < MaxUpgradeCalls
  /\ \E envGiven \in BOOLEAN :
       LET out == IF kind = "Minimal"
                  THEN Minimal_apt_upgrade_system(self, envGiven)
                  ELSE Edition_apt_upgrade_system(self, envGiven)
       IN  /\ Returned(Call("apt_upgrade_system", "", NoList, NoList, envGiven), out)
           /\ nUpgradeCmds' = nUpgradeCmds + UpgradeCommandsIn(out.cmds)
  /\ nUpgradeCalls' = nUpgradeCalls + (IF kind = "Minimal" THEN 0 ELSE 1)

\* variant: post_install renames the edition after the installed packages
post_install_renaming ==
  \E pkgGiven \in BOOLEAN, pkg \in Lists(PkgItems) :
    LET pkg_install == IF pkgGiven THEN pkg ELSE NoList
    IN  /\ pkgGiven \/ pkg = NoList
        /\ pc = "ready"
        /\ call' = Call("post_install", "", pkg_install, NoList, pkgGiven)
        /\ result' = IF kind = "CloudBioLinux"
                     THEN CloudBioLinux_post_install(self, pkgGiven, pkg_install)
                     ELSE Edition_post_install(self, pkgGiven, pkg_install)
        /\ name' = IF pkgGiven /\ Contains(pkg_install, "cloudman")
                   THEN name \o " with CloudMan" ELSE name
        /\ UNCHANGED <<pc, kind, short_name, version, self_env, env,
                       ctor_check, counters>>

post_install ==
  \E pkgGiven \in BOOLEAN, pkg \in Lists(PkgItems) :
    LET pkg_install == IF pkgGiven THEN pkg ELSE NoList
    IN  /\ pkgGiven \/ pkg = NoList
        /\ Returned(Call("post_install", "", pkg_install, NoList, pkgGiven),
             IF kind = "CloudBioLinux"
             THEN CloudBioLinux_post_install(self, pkgGiven, pkg_install)
             ELSE Edition_post_install(self, pkgGiven, pkg_install))
        /\ UNCHANGED counters

rewrite_config_items ==
  \E cat \in ConfigNames, items \in Lists(ConfigItems) :
    /\ Returned(Call("rewrite_config_items", cat, items, NoList, TRUE),
         CASE kind = "CloudBioLinux" -> CloudBioLinux_rewrite_config_items(self, cat, items)
           [] kind = "BioNode" -> BioNode_rewrite_config_items(self, cat, items)
           [] kind = "Minimal" -> Minimal_rewrite_config_items(self, cat, items)
           [] OTHER -> Edition_rewrite_config_items(self, cat, items))
    /\ UNCHANGED counters

\* the edition goes out of scope at the end of a provisioning run
Discard ==
  /\ pc = "ready"
  /\ pc' = "idle"
  /\ kind' = Unset
  /\ name' = Unset /\ short_name' = Unset /\ version' = Unset
  /\ self_env' = Unset
  /\ ctor_check' = "pending"
  /\ call' = NoCall /\ result' = NoResult
  /\ UNCHANGED <<env, counters>>

Next ==
  \/ Edition_init
  \/ check_distribution
  \/ Subclass_init
  \/ check_packages_source
  \/ rewrite_apt_sources_list
  \/ rewrite_apt_preferences
  \/ rewrite_apt_automation
  \/ rewrite_apt_keys
  \/ apt_upgrade_system
  \/ post_install
  \/ rewrite_config_items
  \/ Discard

Spec == Init /\ [][Next]_vars

(* ============================ properties =============================== *)

(* C1 (as stated): in every constructor, when check_distribution runs, name
   and short_name already hold the final values of the edition being
   constructed. *)
C1_FinalNamesAtCheck ==
  pc = "check_distribution" =>
    /\ name = EditionName(kind)
    /\ short_name = EditionShortName(kind)

(* C1 (amended): when check_distribution runs, name and short_name hold the
   base values "BioLinux base Edition" / "biolinux" and version holds
   env.version; a subclass assigns its own name and short_name only after
   check_distribution has returned; an edition is handed out only after
   check_distribution returned without raising, and then carries its final
   name, short_name and version. *)
C1_BaseIdentityAtCheck ==
  /\ pc = "check_distribution" =>
       /\ name = "BioLinux base Edition"
       /\ short_name = "biolinux"
       /\ version = self_env.version
       /\ ctor_check = "pending"
  /\ pc = "subclass_init" =>
       /\ kind \in {"CloudBioLinux", "BioNode", "Minimal"}
       /\ ctor_check = "none"
       /\ name = "BioLinux base Edition"
       /\ short_name = "biolinux"
  /\ pc = "ready" =>
       /\ ctor_check = "none"
       /\ name = EditionName(kind)
       /\ short_name = EditionShortName(kind)
       /\ version = self_env.version

C1_Witness ==
  /\ pc = "subclass_init"
  /\ kind = "BioNode"
  /\ ctor_check = "none"
  /\ name # EditionName(kind)

(* C2: between two states in which the constructed edition exists, no step
   (that is, no hook call) changes name, short_name or version. *)
C2_IdentityFrozen ==
  [][(pc = "ready" /\ pc' = "ready") => identity' = identity]_vars

C2_Witness ==
  /\ pc = "ready"
  /\ kind = "CloudBioLinux"
  /\ call.hook = "post_install"
  /\ call.given /\ Contains(call.items, "cloudman")
  /\ identity = <<"CloudBioLinux Edition", "cloudbiolinux", self_env.version>>

(* C3 (as stated): after any rewrite hook of any edition, the list(s) the
   caller passed hold the same elements in the same order as before. *)
RewriteHooks ==
  {"rewrite_apt_sources_list", "rewrite_apt_preferences",
   "rewrite_apt_automation", "rewrite_apt_keys", "rewrite_config_items"}

C3_ArgumentsUntouched ==
  call.hook \in RewriteHooks =>
    /\ result.items = call.items
    /\ result.items2 = call.items2

(* C4: CloudBioLinux.rewrite_config_items returns the input followed by the
   entries of galaxy, galaxy_tools, cloudman that the input lacks, in that
   order; the empty list gives exactly the three; applying the hook to its
   own result changes nothing. *)
C4_Missing(items) ==
  SelectSeq(<<"galaxy", "galaxy_tools", "cloudman">>,
            LAMBDA x : ~Contains(items, x))

C4_AppendsMissingOnce ==
  (kind = "CloudBioLinux" /\ call.hook = "rewrite_config_items") =>
    /\ result.ret = call.items \o C4_Missing(call.items)
    /\ call.items = <<>> =>
         result.ret = <<"galaxy", "galaxy_tools", "cloudman">>
    /\ CloudBioLinux_rewrite_config_items(self, call.name, result.ret).ret
         = result.ret

C4_Witness ==
  /\ kind = "CloudBioLinux"
  /\ call.hook = "rewrite_config_items"
  /\ call.items = <<"cloudman", "x">>
  /\ result.ret = <<"cloudman", "x", "galaxy", "galaxy_tools">>

(* C5 (as stated): BioNode.rewrite_apt_sources_list is determined by the
   environment the edition was constructed with: for distribution "debian"
   the three Debian entries built from that environment's repository
   (override or default) and dist_name, then the bio-linux entry; otherwise
   the bio-linux entry alone. *)
C5_Repo ==
  IF self_env.debian_repository # "" THEN self_env.debian_repository
  ELSE "http://ftp.us.debian.org/debian/"

C5_SourcesFromOwnEnv ==
  (kind = "BioNode" /\ call.hook = "rewrite_apt_sources_list") =>
    result.ret =
      IF self_env.distribution = "debian"
      THEN << "deb " \o C5_Repo \o " " \o self_env.dist_name
                \o " main contrib non-free",
              "deb " \o C5_Repo \o " " \o self_env.dist_name
                \o "-updates main contrib non-free",
              "deb " \o C5_Repo \o " testing main contrib non-free",
              "deb http://nebc.nerc.ac.uk/bio-linux/ unstable bio-linux" >>
      ELSE << "deb http://nebc.nerc.ac.uk/bio-linux/ unstable bio-linux" >>

(* C6: every apt_upgrade_system call on a non-Minimal edition issues exactly
   the one command "apt-get -y --force-yes upgrade" (via env.safe_sudo when
   an env is passed, via sudo otherwise), every call on Minimal issues none,
   and the number of upgrade commands issued so far equals the number of
   non-Minimal calls made so far. *)
C6_OneUpgradePerCall ==
  /\ nUpgradeCmds = nUpgradeCalls
  /\ call.hook = "apt_upgrade_system" =>
       result.cmds =
         IF kind = "Minimal" THEN <<>>
         ELSE << << IF call.given THEN "env.safe_sudo" ELSE "sudo",
                    "apt-get -y --force-yes upgrade" >> >>

C6_Witness ==
  /\ kind = "Minimal"
  /\ call.hook = "apt_upgrade_system"
  /\ nUpgradeCalls > 0
  /\ nUpgradeCmds = nUpgradeCalls

(* C7 (as stated): every Minimal.apt_upgrade_system call, with or without an
   env argument, returns without raising, logs "Skipping forced system
   upgrade" and does nothing else. *)
C7_MinimalUpgradeSkips ==
  (kind = "Minimal" /\ call.hook = "apt_upgrade_system") =>
    /\ result.raised = "none"
    /\ result.logs = <<"Skipping forced system upgrade">>
    /\ result.cmds = <<>>
    /\ result.collab = <<>>

(* C8: CloudBioLinux.post_install invokes _freenx_scripts exactly once, and
   _configure_cloudman exactly once iff pkg_install is given and contains
   "cloudman"; post_install of the other editions invokes neither. *)
C8_Invocations(c) ==
  Cardinality({i \in DOMAIN result.collab : result.collab[i] = c})

C8_PostInstallCollaborators ==
  call.hook = "post_install" =>
    IF kind = "CloudBioLinux"
    THEN /\ C8_Invocations("_freenx_scripts") = 1
         /\ C8_Invocations("_configure_cloudman") =
              IF call.given /\ Contains(call.items, "cloudman") THEN 1 ELSE 0
    ELSE result.collab = <<>>

C8_Witness ==
  /\ kind = "CloudBioLinux"
  /\ call.hook = "post_install"
  /\ call.given
  /\ call.items = <<"x", "cloudman">>
  /\ C8_Invocations("_configure_cloudman") = 1

(* C9: for Edition and CloudBioLinux, rewrite_apt_sources_list,
   rewrite_apt_preferences and rewrite_apt_automation return their input,
   and rewrite_apt_keys returns the pair (standalone, keyserver) it got. *)
C9_IdentityLaw ==
  kind \in {"Edition", "CloudBioLinux"} =>
    /\ call.hook \in {"rewrite_apt_sources_list", "rewrite_apt_preferences",
                      "rewrite_apt_automation"} =>
         result.ret = call.items
    /\ call.hook = "rewrite_apt_keys" =>
         result.ret = <<call.items, call.items2>>

C9_Witness ==
  /\ kind = "CloudBioLinux"
  /\ call.hook = "rewrite_apt_keys"
  /\ Len(call.items) = 1 /\ Len(call.items2) = 2
  /\ result.ret[1] = call.items

(* C10: BioNode.rewrite_config_items returns items followed by
   "bio-linux-keyring" when name is "minimal", also when the keyring is
   already in items (as it is in the hook's own result), and returns items
   unchanged for every other name. *)
C10_Expected(cat, items) ==
  IF cat = "minimal" THEN Append(items, "bio-linux-keyring") ELSE items

C10_KeyringOnMinimal ==
  (kind = "BioNode" /\ call.hook = "rewrite_config_items") =>
    /\ result.ret = C10_Expected(call.name, call.items)
    /\ BioNode_rewrite_config_items(self, call.name, result.ret).ret
         = C10_Expected(call.name, result.ret)

C10_Witness ==
  /\ kind = "BioNode"
  /\ call.hook = "rewrite_config_items"
  /\ call.name = "minimal"
  /\ call.items = <<"x">>
  /\ result.ret = <<"x", "bio-linux-keyring">>

====
